---- MODULE Spec2Model ----
(***************************************************************************)
(* Model of contact_system.py: the ContactManager store (a doubly linked   *)
(* list of contacts plus a dict from lowercased name to contact), its five *)
(* methods, and the demo_flow caller.                                      *)
(*                                                                         *)
(* Python strings are modelled as sequences of one-character strings, so   *)
(* that strip(), lower() and the `in` containment test are computed, not   *)
(* assumed.  Objects are modelled by identity: a Contact is an index into  *)
(* `contacts`, a Node is an index into `nodes`, and None is 0.             *)
(***************************************************************************)
EXTENDS Integers, Sequences, FiniteSets, TLC

VARIABLES
    contacts,   \* heap of Contact objects: id |-> [name, phone]
    nodes,      \* heap of Node objects: id |-> [contact, prev, next]
    head,       \* DoublyLinkedList.head (a node id or None)
    tail,       \* DoublyLinkedList.tail (a node id or None)
    size,       \* DoublyLinkedList.size
    table,      \* ContactManager.table: lowercased name |-> contact id
    hist,       \* history: the raw (name, phone) arguments of every add_contact call, in order
    lastCall,   \* history: the last method call, its arguments and its return value
    pc          \* position of the caller: "api" (any caller) or a line of demo_flow

listVars == <<nodes, head, tail, size>>
storeVars == <<contacts, nodes, head, tail, size, table>>
vars == <<contacts, nodes, head, tail, size, table, hist, lastCall, pc>>

None == 0

----------------------------------------------------------------------------
(* Bounds and input sets                                                   *)

MaxContacts == 3

Names ==
    { <<>>,
      <<"\t">>,
      <<"A", " ", "l">>,
      <<" ", "a", " ", "L", "\t">> }

Phones == { <<"1">>, <<" ", "2">> }

FindArgs ==
    { <<>>,
      <<" ", "a", " ", "L", "\t">>,
      <<"a", " ", "l">>,
      <<"A", "l">> }

Keywords ==
    { <<>>, <<" ", "L">>, <<"l", "a">> }

----------------------------------------------------------------------------
(* str.strip() and str.lower()                                             *)

Whitespace == { " ", "\t" }

UpperChars ==
    << "A", "B", "C", "D", "E", "F", "G", "H", "I", "J", "K", "L", "M",
       "N", "O", "P", "Q", "R", "S", "T", "U", "V", "W", "X", "Y", "Z" >>

LowerChars ==
    << "a", "b", "c", "d", "e", "f", "g", "h", "i", "j", "k", "l", "m",
       "n", "o", "p", "q", "r", "s", "t", "u", "v", "w", "x", "y", "z" >>

lower_char(c) ==
    IF \E i \in DOMAIN UpperChars : UpperChars[i] = c
    THEN LowerChars[CHOOSE i \in DOMAIN UpperChars : UpperChars[i] = c]
    ELSE c

lower_identity(s) == s

lower(s) == [i \in DOMAIN s |-> lower_char(s[i])]

RECURSIVE lstrip(_)
lstrip(s) ==
    IF s # <<>> /\ Head(s) \in Whitespace THEN lstrip(Tail(s)) ELSE s

RECURSIVE rstrip(_)
rstrip(s) ==
    IF s # <<>> /\ s[Len(s)] \in Whitespace
    THEN rstrip(SubSeq(s, 1, Len(s) - 1))
    ELSE s

strip_left_only(s) == lstrip(s)

strip(s) == rstrip(lstrip(s))

(* Python's `p in t` for strings *)
str_contains(t, p) ==
    \E off \in 0 .. (Len(t) - Len(p)) : SubSeq(t, off + 1, off + Len(p)) = p

----------------------------------------------------------------------------
(* DoublyLinkedList                                                        *)

Node(contact) == [contact |-> contact, prev |-> None, next |-> None]

append_no_prev(contact) ==
    LET node == Len(nodes) + 1 IN
    /\ IF tail = None
       THEN /\ nodes' = Append(nodes, Node(contact))
            /\ head' = node
            /\ tail' = node
       ELSE /\ nodes' = Append([nodes EXCEPT ![tail].next = node], Node(contact))
            /\ head' = head
            /\ tail' = node
    /\ size' = size + 1

append_no_next(contact) ==
    LET node == Len(nodes) + 1 IN
    /\ IF tail = None
       THEN /\ nodes' = Append(nodes, Node(contact))
            /\ head' = node
            /\ tail' = node
       ELSE /\ nodes' = Append(nodes, [Node(contact) EXCEPT !.prev = tail])
            /\ head' = head
            /\ tail' = node
    /\ size' = size + 1

append_front(contact) ==
    LET node == Len(nodes) + 1 IN
    /\ IF tail = None
       THEN /\ nodes' = Append(nodes, Node(contact))
            /\ head' = node
            /\ tail' = node
       ELSE /\ nodes' = Append([nodes EXCEPT ![head].prev = node],
                               [Node(contact) EXCEPT !.next = head])
            /\ head' = node
            /\ tail' = tail
    /\ size' = size + 1

append(contact) ==
    LET node == Len(nodes) + 1 IN
    /\ IF tail = None
       THEN /\ nodes' = Append(nodes, Node(contact))
            /\ head' = node
            /\ tail' = node
       ELSE /\ nodes' = Append([nodes EXCEPT ![tail].next = node],
                               [Node(contact) EXCEPT !.prev = tail])
            /\ head' = head
            /\ tail' = node
    /\ size' = size + 1

RECURSIVE walk_next(_)
walk_next(cur) ==
    IF cur = None THEN <<>>
    ELSE <<nodes[cur].contact>> \o walk_next(nodes[cur].next)

RECURSIVE walk_prev(_)
walk_prev(cur) ==
    IF cur = None THEN <<>>
    ELSE <<nodes[cur].contact>> \o walk_prev(nodes[cur].prev)

iter_forward == walk_next(head)

iter_backward == walk_prev(tail)

----------------------------------------------------------------------------
(* naive_substring_search and ContactManager                               *)

naive_substring_search_case_sensitive(text, pattern) ==
    IF pattern = <<>> THEN TRUE ELSE str_contains(text, pattern)

naive_substring_search(text, pattern) ==
    IF pattern = <<>> THEN TRUE
    ELSE LET t == lower(text)
             p == lower(pattern)
         IN  str_contains(t, p)

add_contact_keep_first(name, phone) ==
    LET n == strip(name)
        p == strip(phone)
        contact == Len(contacts) + 1
        key == lower(n)
    IN  /\ contacts' = Append(contacts, [name |-> n, phone |-> p])
        /\ append(contact)
        /\ table' = [k \in DOMAIN table \cup {key} |->
                        IF k \in DOMAIN table THEN table[k] ELSE contact]

add_contact_no_strip(name, phone) ==
    LET contact == Len(contacts) + 1
        key == lower(name)
    IN  /\ contacts' = Append(contacts, [name |-> name, phone |-> phone])
        /\ append(contact)
        /\ table' = [k \in DOMAIN table \cup {key} |->
                        IF k = key THEN contact ELSE table[k]]

add_contact(name, phone) ==
    LET n == strip(name)
        p == strip(phone)
        contact == Len(contacts) + 1
        key == lower(n)
    IN  /\ contacts' = Append(contacts, [name |-> n, phone |-> p])
        /\ append(contact)
        /\ table' = [k \in DOMAIN table \cup {key} |->
                        IF k = key THEN contact ELSE table[k]]

find_by_name_case_sensitive(name) ==
    IF name \in DOMAIN table THEN table[name] ELSE None

find_by_name(name) ==
    LET key == lower(name)
    IN  IF key \in DOMAIN table THEN table[key] ELSE None

RECURSIVE search_loop(_, _, _)
search_loop(rest, keyword, matches) ==
    IF rest = <<>> THEN matches
    ELSE LET c == Head(rest)
         IN  search_loop(Tail(rest), keyword,
                         IF naive_substring_search(contacts[c].name, keyword)
                         THEN Append(matches, c)
                         ELSE matches)

search_by_keyword(keyword) == search_loop(iter_forward, keyword, <<>>)

all_forward == iter_forward

all_backward == iter_backward

----------------------------------------------------------------------------
(* Callers                                                                 *)

Call(op, args, ret) == [op |-> op, args |-> args, ret |-> ret]

Init ==
    /\ contacts = <<>>
    /\ nodes = <<>>
    /\ head = None
    /\ tail = None
    /\ size = 0
    /\ table = <<>>
    /\ hist = <<>>
    /\ lastCall = Call("init", <<>>, None)
    /\ pc \in {"api", "demo_114"}

DoAdd(name, phone) ==
    /\ add_contact(name, phone)
    /\ hist' = Append(hist, [name |-> name, phone |-> phone])
    /\ lastCall' = Call("add_contact", <<name, phone>>, None)

DoFind(name) ==
    /\ lastCall' = Call("find_by_name", <<name>>, find_by_name(name))
    /\ UNCHANGED <<storeVars, hist>>

DoSearch(keyword) ==
    /\ lastCall' = Call("search_by_keyword", <<keyword>>, search_by_keyword(keyword))
    /\ UNCHANGED <<storeVars, hist>>

DoForward ==
    /\ lastCall' = Call("all_forward", <<>>, all_forward)
    /\ UNCHANGED <<storeVars, hist>>

DoBackward_consuming ==
    /\ lastCall' = Call("all_backward", <<>>, all_backward)
    /\ head' = None
    /\ tail' = None
    /\ size' = 0
    /\ UNCHANGED <<contacts, nodes, table, hist>>

DoBackward ==
    /\ lastCall' = Call("all_backward", <<>>, all_backward)
    /\ UNCHANGED <<storeVars, hist>>

ApiAddContact ==
    /\ pc = "api"
    /\ size < MaxContacts
    /\ \E name \in Names, phone \in Phones : DoAdd(name, phone)
    /\ UNCHANGED pc

ApiFindByName ==
    /\ pc = "api"
    /\ \E name \in FindArgs : DoFind(name)
    /\ UNCHANGED pc

ApiSearchByKeyword ==
    /\ pc = "api"
    /\ \E keyword \in Keywords : DoSearch(keyword)
    /\ UNCHANGED pc

ApiAllForward ==
    /\ pc = "api"
    /\ DoForward
    /\ UNCHANGED pc

ApiAllBackward ==
    /\ pc = "api"
    /\ DoBackward
    /\ UNCHANGED pc

Alice == <<"A", "l", "i", "c", "e">>
Bob == <<"B", "o", "b">>
Carol == <<"C", "a", "r", "o", "l">>
Alfred == <<"A", "l", "f", "r", "e", "d">>
AlicePhone == <<"1", "2", "3", "4", "5", "6", "7", "8", "9", "0">>
BobPhone == <<"2", "3", "4", "5", "6", "7", "8", "9", "0", "1">>
CarolPhone == <<"3", "4", "5", "6", "7", "8", "9", "0", "1", "2">>
AlfredPhone == <<"4", "4", "4", "5", "5", "5", "6", "6", "6", "6">>

DemoAddAlice ==
    /\ pc = "demo_114"
    /\ DoAdd(Alice, AlicePhone)
    /\ pc' = "demo_115"

DemoAddBob ==
    /\ pc = "demo_115"
    /\ DoAdd(Bob, BobPhone)
    /\ pc' = "demo_116"

DemoAddCarol ==
    /\ pc = "demo_116"
    /\ DoAdd(Carol, CarolPhone)
    /\ pc' = "demo_117"

DemoAddAlfred ==
    /\ pc = "demo_117"
    /\ DoAdd(Alfred, AlfredPhone)
    /\ pc' = "demo_119"

DemoSearch ==
    /\ pc = "demo_119"
    /\ DoSearch(<<"A", "l">>)
    /\ pc' = "demo_123"

DemoFind ==
    /\ pc = "demo_123"
    /\ DoFind(Bob)
    /\ pc' = "demo_129"

DemoForward ==
    /\ pc = "demo_129"
    /\ DoForward
    /\ pc' = "demo_132"

DemoBackward ==
    /\ pc = "demo_132"
    /\ DoBackward
    /\ pc' = "demo_done"

Next ==
    \/ ApiAddContact
    \/ ApiFindByName
    \/ ApiSearchByKeyword
    \/ ApiAllForward
    \/ ApiAllBackward
    \/ DemoAddAlice
    \/ DemoAddBob
    \/ DemoAddCarol
    \/ DemoAddAlfred
    \/ DemoSearch
    \/ DemoFind
    \/ DemoForward
    \/ DemoBackward

Spec == Init /\ [][Next]_vars

----------------------------------------------------------------------------
(* Vocabulary of the properties, defined without reference to the methods  *)

Range(s) == { s[i] : i \in DOMAIN s }

Reverse(s) == [i \in 1 .. Len(s) |-> s[Len(s) + 1 - i]]

IsPrefix(s, t) == Len(s) <= Len(t) /\ SubSeq(t, 1, Len(s)) = s

(* Two characters are the same letter, up to case *)
SameLetter(c, d) ==
    \/ c = d
    \/ \E i \in DOMAIN UpperChars : {c, d} = {UpperChars[i], LowerChars[i]}

(* n is a letter-casing of m *)
IsCasingOf(n, m) ==
    /\ Len(n) = Len(m)
    /\ \A i \in 1 .. Len(n) : SameLetter(n[i], m[i])

(* text contains pattern as a case-insensitive substring *)
ContainsIgnoringCase(text, pattern) ==
    \E off \in 0 .. (Len(text) - Len(pattern)) :
        \A j \in 1 .. Len(pattern) : SameLetter(text[off + j], pattern[j])

(* The whitespace-trimmed form of a string, stated as a property *)
IsTrimOf(t, s) ==
    /\ \E a, b \in 0 .. Len(s) :
          /\ a + b + Len(t) = Len(s)
          /\ t = SubSeq(s, a + 1, a + Len(t))
          /\ \A i \in 1 .. a : s[i] \in Whitespace
          /\ \A i \in (Len(s) - b + 1) .. Len(s) : s[i] \in Whitespace
    /\ t # <<>> => (t[1] \notin Whitespace /\ t[Len(t)] \notin Whitespace)

(* The contact the i-th add_contact call is meant to create *)
Added(i) == [name |-> strip(hist[i].name), phone |-> strip(hist[i].phone)]

Deref(ids) == [i \in DOMAIN ids |-> contacts[ids[i]]]

Identity(n) == [i \in 1 .. n |-> i]

----------------------------------------------------------------------------
(* C1: all_forward() returns the added contacts in insertion order, one    *)
(* entry per add_contact call (duplicate names included), and              *)
(* all_backward() returns exactly the reverse of all_forward(); this holds *)
(* after every sequence of adds, the empty one included.                   *)
C1_ForwardIsInsertionOrder ==
    /\ all_forward = Identity(Len(hist))
    /\ \A i \in 1 .. Len(hist) : contacts[i] = Added(i)
    /\ all_backward = Reverse(all_forward)
    /\ lastCall.op = "all_forward" => lastCall.ret = Identity(Len(hist))
    /\ lastCall.op = "all_backward" => lastCall.ret = Reverse(Identity(Len(hist)))

C1_Witness ==
    /\ lastCall.op = "all_backward"
    /\ lastCall.ret = <<3, 2, 1>>
    /\ lower(contacts[1].name) = lower(contacts[3].name)

(* The last add_contact call whose trimmed name is a letter-casing of n *)
LastAddOf(n) ==
    CHOOSE j \in 1 .. Len(hist) :
        /\ IsCasingOf(n, Added(j).name)
        /\ \A k \in (j + 1) .. Len(hist) : ~IsCasingOf(n, Added(k).name)

(* C2 as stated: after add_contact(name, phone), find_by_name of every     *)
(* letter-casing of name, a name with leading or trailing whitespace       *)
(* included, returns a contact with that phone.                            *)
C2_FindAfterAddRawName ==
    lastCall.op = "add_contact" =>
        \A n \in FindArgs :
            IsCasingOf(n, lastCall.args[1]) =>
                /\ find_by_name(n) # None
                /\ contacts[find_by_name(n)].phone = strip(lastCall.args[2])

(* C2 amended: after add_contact(name, phone), find_by_name of every       *)
(* letter-casing of the whitespace-trimmed name returns a contact whose    *)
(* phone is the trimmed phone; when several adds used a casing of the same *)
(* trimmed name, the phone is that of the most recent of them.             *)
C2_FindAfterAddTrimmedName ==
    /\ \A n \in FindArgs :
          (\E i \in 1 .. Len(hist) : IsCasingOf(n, Added(i).name)) =>
              /\ find_by_name(n) # None
              /\ IsTrimOf(contacts[find_by_name(n)].phone, hist[LastAddOf(n)].phone)
    /\ (lastCall.op = "find_by_name"
            /\ \E i \in 1 .. Len(hist) : IsCasingOf(lastCall.args[1], Added(i).name)) =>
          /\ lastCall.ret # None
          /\ IsTrimOf(contacts[lastCall.ret].phone,
                      hist[LastAddOf(lastCall.args[1])].phone)

C2_Witness ==
    /\ lastCall.op = "find_by_name"
    /\ lastCall.args[1] = <<"a", " ", "l">>
    /\ Len(hist) = 2
    /\ hist[1] = [name |-> <<"A", " ", "l">>, phone |-> <<"1">>]
    /\ hist[2] = [name |-> <<" ", "a", " ", "L", "\t">>, phone |-> <<" ", "2">>]
    /\ contacts[lastCall.ret].phone = <<"2">>

(* C3: search_by_keyword(k) returns exactly the contacts whose name        *)
(* contains k as a case-insensitive substring, one per sequence entry, in  *)
(* insertion order; search_by_keyword("") returns every contact.           *)
SearchIsExact(k, ret) ==
    /\ \A i \in 1 .. Len(ret) : ret[i] \in 1 .. Len(hist)
    /\ \A i, j \in 1 .. Len(ret) : i < j => ret[i] < ret[j]
    /\ \A c \in 1 .. Len(hist) :
          c \in Range(ret) <=> ContainsIgnoringCase(contacts[c].name, k)

C3_SearchIsExactSubsequence ==
    /\ \A k \in Keywords : SearchIsExact(k, search_by_keyword(k))
    /\ search_by_keyword(<<>>) = Identity(Len(hist))
    /\ lastCall.op = "search_by_keyword" =>
          SearchIsExact(lastCall.args[1], lastCall.ret)

C3_Witness ==
    /\ lastCall.op = "search_by_keyword"
    /\ lastCall.args[1] = <<" ", "L">>
    /\ lastCall.ret = <<1, 3>>
    /\ contacts[1].name # contacts[3].name
    /\ Len(hist) = 3

(* C4 as stated: find_by_name(n) returns None for every n that was never   *)
(* passed to add_contact.                                                  *)
C4_NotFoundIfNeverPassed ==
    \A n \in FindArgs :
        (\A i \in 1 .. Len(hist) : hist[i].name # n) => find_by_name(n) = None

(* C4 amended: find_by_name(n) returns None for every n that is not a      *)
(* letter-casing of the whitespace-trimmed name of any add_contact call.   *)
C4_NotFoundIfNoCasingAdded ==
    /\ \A n \in FindArgs :
          (\A i \in 1 .. Len(hist) : ~IsCasingOf(n, Added(i).name)) =>
              find_by_name(n) = None
    /\ (lastCall.op = "find_by_name"
            /\ \A i \in 1 .. Len(hist) : ~IsCasingOf(lastCall.args[1], Added(i).name)) =>
          lastCall.ret = None

C4_Witness ==
    /\ lastCall.op = "find_by_name"
    /\ lastCall.args[1] = <<" ", "a", " ", "L", "\t">>
    /\ lastCall.ret = None
    /\ \E i \in 1 .. Len(hist) : hist[i].name = <<" ", "a", " ", "L", "\t">>

(* C5: the demo scenario.  After the four adds, search_by_keyword("Al")    *)
(* returns [Alice, Alfred], find_by_name("bob") and find_by_name("Bob")    *)
(* return Bob/2345678901, all_forward() returns [Alice, Bob, Carol,        *)
(* Alfred] and all_backward() returns [Alfred, Carol, Bob, Alice].         *)
AliceContact == [name |-> Alice, phone |-> AlicePhone]
BobContact == [name |-> Bob, phone |-> BobPhone]
CarolContact == [name |-> Carol, phone |-> CarolPhone]
AlfredContact == [name |-> Alfred, phone |-> AlfredPhone]

DemoAddsDone == pc \in {"demo_119", "demo_123", "demo_129", "demo_132", "demo_done"}

C5_DemoScenario ==
    /\ DemoAddsDone =>
          /\ Deref(search_by_keyword(<<"A", "l">>)) = <<AliceContact, AlfredContact>>
          /\ find_by_name(<<"b", "o", "b">>) # None
          /\ contacts[find_by_name(<<"b", "o", "b">>)] = BobContact
          /\ find_by_name(Bob) = find_by_name(<<"b", "o", "b">>)
          /\ Deref(all_forward) = <<AliceContact, BobContact, CarolContact, AlfredContact>>
          /\ Deref(all_backward) = <<AlfredContact, CarolContact, BobContact, AliceContact>>
    /\ pc = "demo_123" => Deref(lastCall.ret) = <<AliceContact, AlfredContact>>
    /\ pc = "demo_129" => lastCall.ret # None /\ contacts[lastCall.ret] = BobContact
    /\ pc = "demo_132" =>
          Deref(lastCall.ret) = <<AliceContact, BobContact, CarolContact, AlfredContact>>
    /\ pc = "demo_done" =>
          Deref(lastCall.ret) = <<AlfredContact, CarolContact, BobContact, AliceContact>>

C5_Witness ==
    /\ pc = "demo_done"
    /\ lastCall.op = "all_backward"
    /\ Len(lastCall.ret) = 4
    /\ Len(hist) = 4

(* C6 as stated: every contact in the sequence is the contact the index    *)
(* stores under that contact's lowercased name.                            *)
C6_EverySequenceEntryIsIndexed ==
    \A c \in Range(all_forward) :
        LET key == lower(contacts[c].name)
        IN  key \in DOMAIN table /\ contacts[table[key]] = contacts[c]

(* C6 amended: for every contact in the sequence, its lowercased name is a *)
(* key of the index, and the index stores under that key either that       *)
(* contact or a contact added later whose lowercased name is the same.     *)
C6_EverySequenceEntryHasItsKeyIndexed ==
    \A c \in Range(all_forward) :
        \E key \in DOMAIN table :
            /\ IsCasingOf(key, contacts[c].name)
            /\ key = lower(key)
            /\ table[key] >= c
            /\ table[key] \in Range(all_forward)
            /\ IsCasingOf(key, contacts[table[key]].name)

C6_Witness ==
    /\ Len(hist) = 3
    /\ DOMAIN table = {<<"a", " ", "l">>}
    /\ table[<<"a", " ", "l">>] = 3
    /\ contacts[1] # contacts[3]
    /\ lastCall.op = "add_contact"

(* C7: the index's key set is the set of lowercased names of the contacts  *)
(* in the sequence, and each key maps to the last sequence entry with that *)
(* lowercased name; adding a name whose lowercased form is already a key   *)
(* keeps the earlier entry in the sequence, appends the new one and leaves *)
(* the number of keys unchanged.                                           *)
IsLowercase(key) == \A i \in 1 .. Len(key) : \A u \in DOMAIN UpperChars : key[i] # UpperChars[u]

IndexHoldsLatest ==
    /\ \A key \in DOMAIN table :
          /\ IsLowercase(key)
          /\ table[key] \in 1 .. Len(hist)
          /\ IsCasingOf(key, contacts[table[key]].name)
          /\ \A c \in (table[key] + 1) .. Len(hist) : ~IsCasingOf(key, contacts[c].name)
    /\ \A c \in 1 .. Len(hist) :
          \E key \in DOMAIN table : IsCasingOf(key, contacts[c].name)
    /\ all_forward = Identity(Len(hist))

DuplicateAddKeepsStale ==
    (/\ lastCall'.op = "add_contact"
     /\ hist' # hist
     /\ \E key \in DOMAIN table : IsCasingOf(key, contacts'[Len(contacts')].name))
    =>
    (/\ Cardinality(DOMAIN table') = Cardinality(DOMAIN table)
     /\ all_forward' = Append(all_forward, Len(contacts'))
     /\ \A c \in 1 .. Len(contacts) : contacts'[c] = contacts[c])

C7_IndexHoldsLatestAndKeepsStale ==
    /\ []IndexHoldsLatest
    /\ [][DuplicateAddKeepsStale]_vars

C7_Witness ==
    /\ lastCall.op = "add_contact"
    /\ Len(hist) = 3
    /\ DOMAIN table = {<<>>, <<"a", " ", "l">>}
    /\ table[<<>>] = 2
    /\ table[<<"a", " ", "l">>] = 3
    /\ contacts[1].name = contacts[3].name
    /\ all_forward = <<1, 2, 3>>

(* C8: add_contact has no error outcome.  For every name and phone it is   *)
(* accepted, stores the whitespace-trimmed name and phone, grows the       *)
(* sequence by exactly one contact at the tail and sets the index entry of *)
(* the lowercased trimmed name to the new contact; after adding an empty   *)
(* (or whitespace-only) name, find_by_name("") returns that contact.       *)
AddAlwaysAccepted ==
    (pc = "api" /\ size < MaxContacts) =>
        \A name \in Names, phone \in Phones : ENABLED DoAdd(name, phone)

AddStoresTrimmed ==
    lastCall.op = "add_contact" =>
        LET c == Len(contacts)
        IN  /\ tail # None
            /\ nodes[tail].contact = c
            /\ nodes[tail].next = None
            /\ IsTrimOf(contacts[c].name, lastCall.args[1])
            /\ IsTrimOf(contacts[c].phone, lastCall.args[2])
            /\ \E key \in DOMAIN table :
                  /\ IsLowercase(key)
                  /\ IsCasingOf(key, contacts[c].name)
                  /\ table[key] = c
            /\ contacts[c].name = <<>> => find_by_name(<<>>) = c

AddGrowsByOneAtTail ==
    (lastCall'.op = "add_contact" /\ hist' # hist) =>
        /\ size' = size + 1
        /\ Len(contacts') = Len(contacts) + 1
        /\ all_forward' = Append(all_forward, Len(contacts'))

C8_AddAlwaysSucceeds ==
    /\ []AddAlwaysAccepted
    /\ []AddStoresTrimmed
    /\ [][AddGrowsByOneAtTail]_vars

C8_Witness ==
    /\ lastCall.op = "add_contact"
    /\ lastCall.args = << <<"\t">>, <<" ", "2">> >>
    /\ Len(hist) = 2
    /\ hist[1].name = <<" ", "a", " ", "L", "\t">>
    /\ contacts[2] = [name |-> <<>>, phone |-> <<"2">>]
    /\ find_by_name(<<>>) = 2

(* C9: contacts are never mutated or removed.  Across every step the       *)
(* all_forward() result before is a prefix of the result after, with every *)
(* contact's name and phone unchanged; find_by_name, search_by_keyword,    *)
(* all_forward and all_backward leave the sequence and the index           *)
(* unchanged, and only add_contact extends the sequence.                   *)
forward_contacts == Deref(all_forward)

Queries == {"find_by_name", "search_by_keyword", "all_forward", "all_backward"}

NothingMutatedOrRemoved ==
    /\ IsPrefix(all_forward, all_forward')
    /\ IsPrefix(forward_contacts, forward_contacts')
    /\ \A c \in 1 .. Len(contacts) : Len(contacts') >= c /\ contacts'[c] = contacts[c]
    /\ lastCall'.op \in Queries => UNCHANGED storeVars
    /\ all_forward' # all_forward =>
          /\ lastCall'.op = "add_contact"
          /\ Len(all_forward') = Len(all_forward) + 1

C9_ContactsNeverMutatedOrRemoved == [][NothingMutatedOrRemoved]_vars

C9_Witness ==
    /\ lastCall.op = "search_by_keyword"
    /\ lastCall.ret = <<2>>
    /\ size = 3
    /\ forward_contacts = [i \in 1 .. 3 |-> Added(i)]

(* C10: structure of the doubly linked list after any number of appends.   *)
(* head is None iff tail is None iff size = 0; otherwise head.prev and     *)
(* tail.next are None, n.next.prev is n and n.prev.next is n wherever the  *)
(* link is set, following next from head reaches tail after exactly size   *)
(* nodes without a cycle, and size is the number of append calls.          *)
RECURSIVE nth_next(_, _)
nth_next(cur, k) ==
    IF k = 0 \/ cur = None THEN cur ELSE nth_next(nodes[cur].next, k - 1)

C10_ListWellFormed ==
    /\ (head = None) <=> (tail = None)
    /\ (head = None) <=> (size = 0)
    /\ size = Len(hist)
    /\ size = Len(nodes)
    /\ size > 0 =>
          /\ nodes[head].prev = None
          /\ nodes[tail].next = None
          /\ nth_next(head, size - 1) = tail
          /\ nth_next(head, size) = None
          /\ \A j, k \in 0 .. (size - 1) :
                /\ nth_next(head, j) # None
                /\ j # k => nth_next(head, j) # nth_next(head, k)
    /\ \A n \in 1 .. Len(nodes) :
          /\ nodes[n].next # None => nodes[nodes[n].next].prev = n
          /\ nodes[n].prev # None => nodes[nodes[n].prev].next = n

C10_Witness ==
    /\ size = 3
    /\ head = 1
    /\ tail = 3
    /\ nodes[2].prev = 1
    /\ nodes[2].next = 3
    /\ lastCall.op = "add_contact"

====
